---- MODULE Spec2Model ----
(***************************************************************************)
(* Model of the Azure data chat assistant: the file-extraction dispatcher  *)
(* and corpus assembler (chat_app.py), the retrieval-chat session          *)
(* (ChatBackend), the storage transfer functions (data_download.py,        *)
(* data_upload.py) and the front-end actions of chat_ui.py.                 *)
(*                                                                         *)
(* Text is modelled as sequences of one-character strings, so that path    *)
(* handling, formatting and splitting are computed character by character  *)
(* the way the Python code computes them.                                  *)
(***************************************************************************)
EXTENDS Integers, Sequences, FiniteSets, TLC

VARIABLES
    conversation,       \* ChatBackend.conversation: None or the chain object
    vectorstore,        \* ChatBackend.vectorstore: None or the index object
    chat_history,       \* ChatBackend.chat_history: None or the last transcript
    data_processed,     \* st.session_state.data_processed
    connected_to_azure, \* st.session_state.connected_to_azure
    downloaded_files,   \* st.session_state.downloaded_files (Unset at first)
    st_chat_history,    \* st.session_state.chat_history (Unset at first)
    arg,                \* the input a single-call harness applies its function to
    last,               \* the last call made and what it returned
    succeeded,          \* history: some process_files call has returned True
    asked,              \* history: number of ask_question calls that returned an answer
    sinceReset,         \* history: answers since the chain memory was created or cleared
    cleared             \* history: clear_chat_history succeeded and no answer came since

backend == <<conversation, vectorstore, chat_history>>
ui == <<data_processed, connected_to_azure, downloaded_files, st_chat_history>>
hist == <<succeeded, asked, sinceReset, cleared>>
vars == <<conversation, vectorstore, chat_history, data_processed,
          connected_to_azure, downloaded_files, st_chat_history, arg, last,
          succeeded, asked, sinceReset, cleared>>

\* Python None, and the value of a session attribute that was never set
None == [none |-> TRUE]

\* a st.session_state key that was never assigned
Unset == [unset |-> TRUE]

Max(S) == CHOOSE x \in S : \A y \in S : y <= x

Min2(a, b) == IF a <= b THEN a ELSE b

(***************************************************************************)
(* Python string primitives.                                               *)
(***************************************************************************)
UpperCase ==
    <<"A", "B", "C", "D", "E", "F", "G", "H", "I", "J", "K", "L", "M", "N",
      "O", "P", "Q", "R", "S", "T", "U", "V", "W", "X", "Y", "Z">>
LowerCase ==
    <<"a", "b", "c", "d", "e", "f", "g", "h", "i", "j", "k", "l", "m", "n",
      "o", "p", "q", "r", "s", "t", "u", "v", "w", "x", "y", "z">>

\* str.lower() on one character
lower_char(c) ==
    IF \E i \in 1..Len(UpperCase) : UpperCase[i] = c
    THEN LowerCase[CHOOSE i \in 1..Len(UpperCase) : UpperCase[i] = c]
    ELSE c

\* str.lower()
lower(s) == [i \in 1..Len(s) |-> lower_char(s[i])]

\* str.rfind(c) as a 1-based index, 0 when c does not occur (Python: -1)
rfind(s, c) ==
    LET I == {i \in 1..Len(s) : s[i] = c}
    IN  IF I = {} THEN 0 ELSE Max(I)

\* s.startswith(p)
startswith(s, p) == Len(p) <= Len(s) /\ SubSeq(s, 1, Len(p)) = p

\* p in s (substring)
contains(s, p) ==
    \E i \in 1..(Len(s) - Len(p) + 1) : SubSeq(s, i, i + Len(p) - 1) = p

\* c * n
repeat(c, n) == [i \in 1..n |-> c]

RECURSIVE join_range(_, _, _, _)
\* sep.join(parts[lo..hi]), halving the range
join_range(parts, sep, lo, hi) ==
    IF lo > hi THEN <<>>
    ELSE IF lo = hi THEN parts[lo]
    ELSE LET mid == (lo + hi) \div 2
         IN  join_range(parts, sep, lo, mid) \o sep \o join_range(parts, sep, mid + 1, hi)

\* sep.join(parts)
join(parts, sep) == join_range(parts, sep, 1, Len(parts))

Digits == <<"0", "1", "2", "3", "4", "5", "6", "7", "8", "9">>

RECURSIVE str_int(_)
\* str(n) for a natural number n
str_int(n) ==
    IF n < 10 THEN <<Digits[n + 1]>>
    ELSE str_int(n \div 10) \o <<Digits[(n % 10) + 1]>>

\* os.path.splitext(p): the extension starts at the last dot of the last path
\* component, unless that component has only leading dots before it
splitext(p) ==
    LET sepIndex == rfind(p, "/")
        dotIndex == rfind(p, ".")
    IN  IF /\ dotIndex > sepIndex
           /\ \E k \in (sepIndex + 1)..(dotIndex - 1) : p[k] # "."
        THEN <<SubSeq(p, 1, dotIndex - 1), SubSeq(p, dotIndex, Len(p))>>
        ELSE <<p, <<>>>>

\* os.path.basename(p)
basename(p) == SubSeq(p, rfind(p, "/") + 1, Len(p))

(***************************************************************************)
(* String literals of chat_app.py.                                         *)
(***************************************************************************)
S_File ==
    <<"F", "i", "l", "e", ":", " ">>
S_Columns ==
    <<"C", "o", "l", "u", "m", "n", "s", ":", " ">>
S_Rows ==
    <<"R", "o", "w", "s", ":", " ">>
S_Sample ==
    <<"S", "a", "m", "p", "l", "e", " ", "d", "a", "t", "a", ":", "\n">>
S_Summary ==
    <<"S", "u", "m", "m", "a", "r", "y", " ", "s", "t", "a", "t", "i", "s",
      "t", "i", "c", "s", ":", "\n">>
S_Unsupported ==
    <<"U", "n", "s", "u", "p", "p", "o", "r", "t", "e", "d", " ", "f", "i",
      "l", "e", " ", "t", "y", "p", "e", ":", " ">>
S_ForFile ==
    <<" ", "f", "o", "r", " ", "f", "i", "l", "e", " ">>
S_ErrProcessing ==
    <<"E", "r", "r", "o", "r", " ", "p", "r", "o", "c", "e", "s", "s", "i",
      "n", "g", " ", "f", "i", "l", "e", " ">>
S_ErrPdf ==
    <<"E", "r", "r", "o", "r", " ", "e", "x", "t", "r", "a", "c", "t", "i",
      "n", "g", " ", "t", "e", "x", "t", " ", "f", "r", "o", "m", " ", "P",
      "D", "F", " ">>
S_ColonSp ==
    <<":", " ">>
S_CommaSp ==
    <<",", " ">>
S_NL == <<"\n">>
S_NL2 == <<"\n", "\n">>

EXT_PDF ==
    <<".", "p", "d", "f">>
EXT_CSV ==
    <<".", "c", "s", "v">>
EXT_XLSX ==
    <<".", "x", "l", "s", "x">>
EXT_XLS ==
    <<".", "x", "l", "s">>
EXT_TXT ==
    <<".", "t", "x", "t">>
EXT_MD ==
    <<".", "m", "d">>
EXT_JSON ==
    <<".", "j", "s", "o", "n">>
EXT_XML ==
    <<".", "x", "m", "l">>
EXT_HTML ==
    <<".", "h", "t", "m", "l">>

(***************************************************************************)
(* The files the model reads.  A file is a path and the state of the bytes *)
(* behind it: "ok" (well formed), "corrupt" (present, not parseable) or    *)
(* "missing" (no such file).                                               *)
(***************************************************************************)
DiskStates == {"ok", "corrupt", "missing"}

ErrMsg ==
    <<"b", "a", "d", " ", "f", "i", "l", "e">>
PlainText ==
    <<"h", "e", "l", "l", "o", " ", "w", "o", "r", "l", "d">>
DecodedText ==
    <<"h", "e", "l", "l", "o", " ", "w", "r", "l", "d">>
PageOne ==
    <<"p", "a", "g", "e", " ", "o", "n", "e">>
PageTwo ==
    <<"s", "e", "c", "o", "n", "d", "\n", "p", "a", "g", "e">>
ColX ==
    <<"x">>
ColY ==
    <<"n", "a", "m", "e">>
HeadText ==
    <<" ", " ", " ", "x", " ", "n", "a", "m", "e", "\n", "0", " ", " ",
      "1", " ", " ", " ", " ", "a", "\n", "1", " ", " ", "3", " ", " ",
      " ", " ", "b">>
DescribeText ==
    <<" ", " ", " ", " ", " ", " ", " ", " ", " ", "x", "\n", "c", "o",
      "u", "n", "t", " ", " ", "2", ".", "0", "\n", "m", "e", "a", "n",
      " ", " ", " ", "2", ".", "0">>

P_a_txt ==
    <<"a", ".", "t", "x", "t">>
P_notes_md ==
    <<"d", "o", "c", "s", "/", "n", "o", "t", "e", "s", ".", "m", "d">>
P_d_json ==
    <<"d", ".", "j", "s", "o", "n">>
P_e_xml ==
    <<"e", ".", "x", "m", "l">>
P_f_html ==
    <<"f", ".", "h", "t", "m", "l">>
P_r_pdf ==
    <<"r", ".", "p", "d", "f">>
P_m_csv ==
    <<"/", "t", "m", "p", "/", "m", ".", "c", "s", "v">>
P_s_xlsx ==
    <<"s", ".", "x", "l", "s", "x">>
P_o_xls ==
    <<"o", ".", "x", "l", "s">>
P_R_PDF ==
    <<"R", ".", "P", "D", "F">>
P_M_Csv ==
    <<"M", ".", "C", "s", "v">>
P_A_TXT ==
    <<"A", ".", "T", "X", "T">>
P_c_zip ==
    <<"c", ".", "z", "i", "p">>
P_noext ==
    <<"n", "o", "e", "x", "t">>
P_dotpdf ==
    <<".", "p", "d", "f">>
P_dir_f ==
    <<"v", "1", ".", "c", "s", "v", "/", "f">>
P_bak ==
    <<"a", ".", "t", "x", "t", ".", "b", "a", "k">>
P_pdfx ==
    <<"a", ".", "p", "d", "f", "x">>
P_trail ==
    <<"x", ".">>
P_gz ==
    <<"b", ".", "t", "a", "r", ".", "g", "z">>


P_docs_a_txt ==
    <<"d", "o", "c", "s", "/", "a", ".", "t", "x", "t">>
TempDir ==
    <<"/", "t", "m", "p", "/", "t", "m", "p", "k", "3">>

\* the content of a readable text file that is one line of 1001 characters
LongLineLen == 1001
LongLine == [i \in 1..LongLineLen |-> "x"]

ExtractPaths ==
    {P_a_txt, P_notes_md, P_d_json, P_e_xml, P_f_html, P_r_pdf, P_m_csv,
     P_s_xlsx, P_o_xls, P_R_PDF, P_M_Csv, P_A_TXT, P_c_zip, P_noext,
     P_dotpdf, P_dir_f, P_bak, P_pdfx, P_trail, P_gz}

ExtractFiles == [path : ExtractPaths, disk : DiskStates]

(***************************************************************************)
(* The library calls process_file makes, by what they return or raise.     *)
(* A result is [exc |-> FALSE, val |-> value] or, for a raised exception,  *)
(* [exc |-> TRUE, val |-> str(e)].                                         *)
(***************************************************************************)
\* PdfReader(pdf_path).pages, each page's extract_text()
PdfReader(f) ==
    IF f.disk = "ok"
    THEN [exc |-> FALSE, val |-> <<PageOne, PageTwo>>]
    ELSE [exc |-> TRUE, val |-> ErrMsg]

\* the DataFrame pd.read_csv / pd.read_excel parse: its columns, len(df),
\* df.head(5).to_string(), its numeric columns and their describe().to_string()
read_table(f, file_ext) ==
    IF f.disk = "ok"
    THEN [exc |-> FALSE,
          val |-> [columns |-> <<ColX, ColY>>,
                   nrows |-> 12,
                   head |-> HeadText,
                   numeric_cols |-> IF file_ext = EXT_CSV THEN <<ColX>> ELSE <<>>,
                   describe |-> DescribeText]]
    ELSE [exc |-> TRUE, val |-> ErrMsg]

\* open(file_path, 'r', encoding='utf-8', errors='ignore').read():
\* undecodable bytes are dropped, a missing file raises
open_read(f) ==
    CASE f.disk = "ok" -> [exc |-> FALSE, val |-> PlainText]
      [] f.disk = "long" -> [exc |-> FALSE, val |-> LongLine]
      [] f.disk = "corrupt" -> [exc |-> FALSE, val |-> DecodedText]
      [] OTHER -> [exc |-> TRUE, val |-> ErrMsg]

RECURSIVE pages_text(_)
\* text = ""; for page in pages: text += page.extract_text() + "\n"
pages_text(pages) ==
    IF pages = <<>> THEN <<>>
    ELSE Head(pages) \o S_NL \o pages_text(Tail(pages))

\* ChatBackend.extract_text_from_pdf: its own try/except turns any failure
\* into an error string
extract_text_from_pdf(f) ==
    LET r == PdfReader(f)
    IN  IF r.exc
        THEN S_ErrPdf \o basename(f.path) \o S_ColonSp \o r.val
        ELSE pages_text(r.val)

\* the tabular report of process_file
table_report(f, df) ==
    S_File \o basename(f.path) \o S_NL
    \o S_Columns \o join(df.columns, S_CommaSp) \o S_NL
    \o S_Rows \o str_int(df.nrows) \o S_NL2
    \o S_Sample \o df.head \o S_NL2
    \o S_Summary
    \o (IF Len(df.numeric_cols) > 0 THEN df.describe ELSE <<>>)

\* file_ext = os.path.splitext(file_path)[1].lower()
file_ext_of_nolower(path) == splitext(path)[2]
file_ext_of(path) == lower(splitext(path)[2])

\* the body of process_file's try block: [exc, val, read], read telling
\* whether the file was opened
process_file_try(f, file_ext) ==
    IF file_ext = EXT_PDF
    THEN [exc |-> FALSE,
          val |-> S_File \o basename(f.path) \o S_NL2 \o extract_text_from_pdf(f),
          read |-> TRUE]
    ELSE IF file_ext \in {EXT_CSV, EXT_XLSX, EXT_XLS}
    THEN LET r == read_table(f, file_ext)
         IN  [exc |-> r.exc,
              val |-> IF r.exc THEN r.val ELSE table_report(f, r.val),
              read |-> TRUE]
    ELSE IF file_ext \in {EXT_TXT, EXT_MD, EXT_JSON, EXT_XML, EXT_HTML}
    THEN LET r == open_read(f)
         IN  [exc |-> r.exc,
              val |-> IF r.exc THEN r.val ELSE S_File \o basename(f.path) \o S_NL2 \o r.val,
              read |-> TRUE]
    ELSE [exc |-> FALSE,
          val |-> S_Unsupported \o file_ext \o S_ForFile \o basename(f.path),
          read |-> FALSE]

\* ChatBackend.process_file: [exc, text, read]; the except clause turns
\* every exception of the try block into an error string
process_file_noexcept(f) ==
    LET r == process_file_try(f, file_ext_of(f.path))
    IN  [exc |-> r.exc, text |-> r.val, read |-> r.read]
process_file(f) ==
    LET r == process_file_try(f, file_ext_of(f.path))
    IN  IF r.exc
        THEN [exc |-> FALSE,
              text |-> S_ErrProcessing \o basename(f.path) \o S_ColonSp \o r.val,
              read |-> r.read]
        ELSE [exc |-> FALSE, text |-> r.val, read |-> r.read]

(***************************************************************************)
(* CharacterTextSplitter(separator="\n", chunk_size=1000,                  *)
(* chunk_overlap=200, length_function=len).split_text                      *)
(***************************************************************************)
Separator == "\n"
ChunkSize == 1000
ChunkOverlap == 200
RuleWidth == 50
TopK == 5

SeparatorLen == 1

Whitespace == {" ", "\n", "\t", "\r"}

\* str.strip()
strip(s) ==
    IF \A i \in 1..Len(s) : s[i] \in Whitespace THEN <<>>
    ELSE LET lo == CHOOSE i \in 1..Len(s) :
                     s[i] \notin Whitespace /\ \A j \in 1..(i - 1) : s[j] \in Whitespace
             hi == CHOOSE i \in 1..Len(s) :
                     s[i] \notin Whitespace /\ \A j \in (i + 1)..Len(s) : s[j] \in Whitespace
         IN  SubSeq(s, lo, hi)

\* the members of a finite set of integers in increasing order
sorted(S) ==
    [k \in 1..Cardinality(S) |->
        CHOOSE x \in S : Cardinality({y \in S : y <= x}) = k]

\* re.split(separator, text): the pieces between separators, empty ones included
re_split(text) ==
    LET pts == sorted({0, Len(text) + 1} \cup {i \in 1..Len(text) : text[i] = Separator})
    IN  [k \in 1..(Len(pts) - 1) |-> SubSeq(text, pts[k] + 1, pts[k + 1] - 1)]

NonEmpty(s) == s # <<>>

\* _join_docs: separator.join(docs).strip(), <<>> standing for None
join_docs(docs) == strip(join(docs, <<Separator>>))

\* total + _len + (separator_len if len(current_doc) > 0 else 0) > chunk_size
overflows(current_doc, total, len) ==
    total + len + (IF Len(current_doc) > 0 THEN SeparatorLen ELSE 0) > ChunkSize

RECURSIVE pop_front(_, _, _)
\* the while loop of _merge_splits: drop leading pieces until the kept tail
\* is within the overlap and the next piece fits
pop_front(current_doc, total, len) ==
    IF total > ChunkOverlap \/ (overflows(current_doc, total, len) /\ total > 0)
    THEN pop_front(Tail(current_doc),
                   total - (Len(current_doc[1])
                            + (IF Len(current_doc) > 1 THEN SeparatorLen ELSE 0)),
                   len)
    ELSE [current_doc |-> current_doc, total |-> total]

\* one iteration of the for loop of _merge_splits
merge_step(st, d) ==
    LET flush == overflows(st.current_doc, st.total, Len(d)) /\ Len(st.current_doc) > 0
        doc == join_docs(st.current_doc)
        docs1 == IF flush /\ doc # <<>> THEN Append(st.docs, doc) ELSE st.docs
        kept == IF flush THEN pop_front(st.current_doc, st.total, Len(d))
                ELSE [current_doc |-> st.current_doc, total |-> st.total]
        cur1 == Append(kept.current_doc, d)
    IN  [docs |-> docs1,
         current_doc |-> cur1,
         total |-> kept.total + Len(d) + (IF Len(cur1) > 1 THEN SeparatorLen ELSE 0)]

RECURSIVE merge_loop(_, _, _, _)
\* the for loop of _merge_splits over splits[lo..hi], in order, halving the
\* range (the test on left.total, which is never negative, has the left half
\* evaluated before the right half is entered)
merge_loop(st, splits, lo, hi) ==
    IF lo > hi THEN st
    ELSE IF lo = hi THEN merge_step(st, splits[lo])
    ELSE LET mid == (lo + hi) \div 2
             left == merge_loop(st, splits, lo, mid)
         IN  IF left.total >= 0 THEN merge_loop(left, splits, mid + 1, hi) ELSE left

\* _merge_splits(splits, separator)
merge_splits(splits) ==
    LET st == merge_loop([docs |-> <<>>, current_doc |-> <<>>, total |-> 0],
                         splits, 1, Len(splits))
        doc == join_docs(st.current_doc)
    IN  IF doc # <<>> THEN Append(st.docs, doc) ELSE st.docs

\* split_text merging the empty pieces too
split_text_keep_empty(text) == merge_splits(re_split(text))

\* split_text(text): split on the separator, drop empty pieces, merge
split_text(text) == merge_splits(SelectSeq(re_split(text), NonEmpty))

(***************************************************************************)
(* ChatBackend.process_files, lines 75-86: the corpus and its chunks.      *)
(***************************************************************************)
\* "\n\n" + "-" * 50 + "\n\n"
Delimiter == S_NL2 \o repeat("-", RuleWidth) \o S_NL2

RECURSIVE assemble(_)
\* the for loop over file_paths: [exc, all_text, reads]; an exception of
\* process_file would leave the loop
assemble(file_paths) ==
    IF file_paths = <<>> THEN [exc |-> FALSE, all_text |-> <<>>, reads |-> <<>>]
    ELSE LET r == process_file(Head(file_paths))
             rd == IF r.read THEN <<Head(file_paths).path>> ELSE <<>>
         IN  IF r.exc THEN [exc |-> TRUE, all_text |-> <<>>, reads |-> rd]
             ELSE LET rest == assemble(Tail(file_paths))
                  IN  [exc |-> rest.exc,
                       all_text |-> r.text \o Delimiter \o rest.all_text,
                       reads |-> rd \o rest.reads]

(***************************************************************************)
(* Bounds of the model and the inputs it draws.                            *)
(***************************************************************************)
MaxAsks == 2
MaxBatch == 2

Questions == {"q1", "q2"}
Answers == {"a1"}

File(path, disk) == [path |-> path, disk |-> disk]

\* the batches the session is given: none, one readable text file, a readable
\* text file with a corrupt PDF
SessionBatches ==
    {<<>>,
     <<File(P_a_txt, "ok")>>,
     <<File(P_r_pdf, "corrupt"), File(P_a_txt, "ok")>>}

\* what the services behind one process_files call do: whether FAISS.from_texts
\* succeeds, whether AZURE_OPENAI_API_KEY / AZURE_OPENAI_ENDPOINT are set, and
\* whether the LLM, memory and chain constructors succeed
IngestEnvs ==
    [faiss_ok : BOOLEAN, azure_api_key : BOOLEAN, azure_endpoint : BOOLEAN,
     chain_ok : BOOLEAN]

\* what conversation.invoke does: raises, or returns the LLM's answer
InvokeOutcomes ==
    {[exc |-> TRUE, val |-> "rate limit reached"]}
    \cup {[exc |-> FALSE, val |-> a] : a \in Answers}

(***************************************************************************)
(* ChatBackend: the retrieval-chat session.                                *)
(***************************************************************************)
\* create_vectorstore: the FAISS index over the chunks, None when
\* HuggingFaceEmbeddings or FAISS.from_texts raises
create_vectorstore(text_chunks, faiss_ok) ==
    IF faiss_ok THEN [texts |-> text_chunks] ELSE None

\* setup_conversation_chain: the chain bound to the index with a fresh, empty
\* ConversationBufferMemory; None when the Azure settings are missing or a
\* constructor raises
setup_conversation_chain(vs, env) ==
    IF ~env.azure_api_key \/ ~env.azure_endpoint THEN None
    ELSE IF ~env.chain_ok THEN None
    ELSE [retriever |-> vs, k |-> TopK, memory |-> <<>>]

ProcessedMsg(n) ==
    [text |-> "Data processed successfully! Created {} chunks for searching.", n |-> n]
FailedMsg(text) == [text |-> text, n |-> 0]

\* process_files reporting success without testing the chain it was given
process_files_no_chain_check(file_paths, env) ==
    LET a == assemble(file_paths)
        text_chunks == split_text(a.all_text)
        vs == create_vectorstore(text_chunks, env.faiss_ok)
        conv == setup_conversation_chain(vs, env)
        out(raised, success, message, vs1, conv1) ==
            [raised |-> raised, ret |-> <<success, message>>,
             vectorstore |-> vs1, conversation |-> conv1,
             all_text |-> a.all_text, reads |-> a.reads,
             text_chunks |-> IF raised THEN <<>> ELSE text_chunks]
    IN  IF a.exc
        THEN out(TRUE, FALSE, FailedMsg("raised"), vectorstore, conversation)
        ELSE IF text_chunks = <<>>
        THEN out(FALSE, FALSE, FailedMsg("No text content was extracted from the files"),
                 vectorstore, conversation)
        ELSE IF vs = None
        THEN out(FALSE, FALSE, FailedMsg("Failed to create vector store"),
                 vs, conversation)
        ELSE out(FALSE, TRUE, ProcessedMsg(Len(text_chunks)), vs, conv)

\* process_files(file_paths) on the current session: what it returns
\* (raised, ret = <<success, message>>) and the attributes it leaves
process_files(file_paths, env) ==
    LET a == assemble(file_paths)
        text_chunks == split_text(a.all_text)
        vs == create_vectorstore(text_chunks, env.faiss_ok)
        conv == setup_conversation_chain(vs, env)
        out(raised, success, message, vs1, conv1) ==
            [raised |-> raised, ret |-> <<success, message>>,
             vectorstore |-> vs1, conversation |-> conv1,
             all_text |-> a.all_text, reads |-> a.reads,
             text_chunks |-> IF raised THEN <<>> ELSE text_chunks]
    IN  IF a.exc
        THEN out(TRUE, FALSE, FailedMsg("raised"), vectorstore, conversation)
        ELSE IF text_chunks = <<>>
        THEN out(FALSE, FALSE, FailedMsg("No text content was extracted from the files"),
                 vectorstore, conversation)
        ELSE IF vs = None
        THEN out(FALSE, FALSE, FailedMsg("Failed to create vector store"),
                 vs, conversation)
        ELSE IF conv = None
        THEN out(FALSE, FALSE, FailedMsg("Failed to set up conversation chain"),
                 vs, conv)
        ELSE out(FALSE, TRUE, ProcessedMsg(Len(text_chunks)), vs, conv)

\* the retriever's documents: the TopK nearest chunks (all of them while the
\* index holds no more than TopK)
retrieve(vs) == SubSeq(vs.texts, 1, Min2(TopK, Len(vs.texts)))

HumanMessage(content) == [type |-> "human", content |-> content]
AIMessage(content) == [type |-> "ai", content |-> content]

\* invoke returning the chat_history loaded before the new turn was saved
invoke_stale(conv, question, outcome) ==
    IF outcome.exc THEN [exc |-> TRUE, val |-> outcome.val, memory |-> conv.memory]
    ELSE [exc |-> FALSE,
          val |-> [question |-> question,
                   chat_history |-> [messages |-> conv.memory],
                   answer |-> outcome.val,
                   source_documents |-> retrieve(conv.retriever)],
          memory |-> conv.memory \o <<HumanMessage(question), AIMessage(outcome.val)>>]

\* invoke saving the question to the memory before the LLM is called
invoke_save_first(conv, question, outcome) ==
    LET asked_memory == conv.memory \o <<HumanMessage(question)>>
        messages == asked_memory \o <<AIMessage(outcome.val)>>
    IN  IF outcome.exc THEN [exc |-> TRUE, val |-> outcome.val, memory |-> asked_memory]
        ELSE [exc |-> FALSE,
              val |-> [question |-> question,
                       chat_history |-> [messages |-> messages],
                       answer |-> outcome.val,
                       source_documents |-> retrieve(conv.retriever)],
              memory |-> messages]

\* conversation.invoke({'question': question}): the chain answers from its
\* memory and the retrieved documents, then saves the question and the answer
\* to its memory; the chat_history it returns is the memory's message list
invoke(conv, question, outcome) ==
    IF outcome.exc THEN [exc |-> TRUE, val |-> outcome.val, memory |-> conv.memory]
    ELSE LET messages == conv.memory \o <<HumanMessage(question), AIMessage(outcome.val)>>
         IN  [exc |-> FALSE,
              val |-> [question |-> question,
                       chat_history |-> [messages |-> messages],
                       answer |-> outcome.val,
                       source_documents |-> retrieve(conv.retriever)],
              memory |-> messages]

GenericError(val) == [error |-> <<"Error processing question: ", val>>]

UninitializedError ==
    [error |-> <<"Conversation chain not initialized. Process data first.">>]

\* ask_question guarding on the index instead of the chain
ask_question_on_index(question, outcome) ==
    IF vectorstore = None
    THEN [ret |-> UninitializedError,
          conversation |-> conversation, chat_history |-> chat_history]
    ELSE IF conversation = None
    THEN [ret |-> GenericError("'NoneType' object has no attribute 'invoke'"),
          conversation |-> conversation, chat_history |-> chat_history]
    ELSE LET response == invoke(conversation, question, outcome)
         IN  IF response.exc
             THEN [ret |-> GenericError(response.val),
                   conversation |-> [conversation EXCEPT !.memory = response.memory],
                   chat_history |-> chat_history]
             ELSE [ret |-> [answer |-> response.val.answer,
                            chat_history |-> response.val.chat_history,
                            source_documents |-> response.val.source_documents],
                   conversation |-> [conversation EXCEPT !.memory = response.memory],
                   chat_history |-> response.val.chat_history]

\* ask_question(question) on the current session
ask_question(question, outcome) ==
    IF conversation = None
    THEN [ret |-> UninitializedError,
          conversation |-> conversation, chat_history |-> chat_history]
    ELSE LET response == invoke(conversation, question, outcome)
         IN  IF response.exc
             THEN [ret |-> GenericError(response.val),
                   conversation |-> [conversation EXCEPT !.memory = response.memory],
                   chat_history |-> chat_history]
             ELSE [ret |-> [answer |-> response.val.answer,
                            chat_history |-> response.val.chat_history,
                            source_documents |-> response.val.source_documents],
                   conversation |-> [conversation EXCEPT !.memory = response.memory],
                   chat_history |-> response.val.chat_history]

\* clear_chat_history dropping the session's transcript only
clear_chat_history_transcript_only ==
    IF conversation # None
    THEN [ret |-> TRUE, conversation |-> conversation, chat_history |-> None]
    ELSE [ret |-> FALSE, conversation |-> conversation, chat_history |-> chat_history]

\* clear_chat_history() on the current session
clear_chat_history ==
    IF conversation # None
    THEN [ret |-> TRUE,
          conversation |-> [conversation EXCEPT !.memory = <<>>],
          chat_history |-> None]
    ELSE [ret |-> FALSE, conversation |-> conversation, chat_history |-> chat_history]

IsAnswer(ret) == "answer" \in DOMAIN ret

(***************************************************************************)
(* History variables kept beside the session.                              *)
(***************************************************************************)
HistAfterProcess(r) ==
    /\ succeeded' = (succeeded \/ r.ret[1])
    /\ sinceReset' = IF r.conversation # conversation THEN 0 ELSE sinceReset
    /\ UNCHANGED <<asked, cleared>>

HistAfterAsk(r) ==
    /\ asked' = IF IsAnswer(r.ret) THEN asked + 1 ELSE asked
    /\ sinceReset' = IF IsAnswer(r.ret) THEN sinceReset + 1 ELSE sinceReset
    /\ cleared' = (cleared /\ ~IsAnswer(r.ret))
    /\ UNCHANGED succeeded

HistAfterClear(r) ==
    /\ sinceReset' = IF r.ret THEN 0 ELSE sinceReset
    /\ cleared' = (cleared \/ r.ret)
    /\ UNCHANGED <<succeeded, asked>>

(***************************************************************************)
(* The session driven call by call.                                        *)
(***************************************************************************)
\* the session after a process_files call that came out as r
AfterProcessFiles(file_paths, r) ==
    /\ vectorstore' = r.vectorstore
    /\ conversation' = r.conversation
    /\ last' = [op |-> "process_files", file_paths |-> file_paths,
                raised |-> r.raised, ret |-> r.ret, all_text |-> r.all_text,
                reads |-> r.reads, text_chunks |-> r.text_chunks]
    /\ HistAfterProcess(r)
    /\ UNCHANGED <<chat_history, ui, arg>>

ProcessFiles(file_paths, env) ==
    AfterProcessFiles(file_paths, process_files(file_paths, env))

\* the session after an ask_question call that came out as r; the model
\* stops counting answers at MaxAsks
AfterAskQuestion(question, outcome, r) ==
    /\ IsAnswer(r.ret) => asked < MaxAsks
    /\ conversation' = r.conversation
    /\ chat_history' = r.chat_history
    /\ last' = [op |-> "ask_question", question |-> question,
                outcome |-> outcome, ret |-> r.ret, after_clear |-> cleared]
    /\ HistAfterAsk(r)
    /\ UNCHANGED <<vectorstore, ui, arg>>

AskQuestion(question, outcome) ==
    AfterAskQuestion(question, outcome, ask_question(question, outcome))

\* the session after a clear_chat_history call that came out as r
AfterClearChatHistory(r) ==
    /\ conversation' = r.conversation
    /\ chat_history' = r.chat_history
    /\ last' = [op |-> "clear_chat_history", ret |-> r.ret]
    /\ HistAfterClear(r)
    /\ UNCHANGED <<vectorstore, ui, arg>>

ClearChatHistory == AfterClearChatHistory(clear_chat_history)

\* ChatBackend.__init__ and the front end's initial session state
InitSession ==
    /\ conversation = None
    /\ vectorstore = None
    /\ chat_history = None
    /\ data_processed = FALSE
    /\ connected_to_azure = FALSE
    /\ downloaded_files = Unset
    /\ st_chat_history = Unset
    /\ last = [op |-> "init"]
    /\ succeeded = FALSE
    /\ asked = 0
    /\ sinceReset = 0
    /\ cleared = FALSE

Init == InitSession /\ arg = None

Next ==
    \/ \E file_paths \in SessionBatches, env \in IngestEnvs : ProcessFiles(file_paths, env)
    \/ \E question \in Questions, outcome \in InvokeOutcomes : AskQuestion(question, outcome)
    \/ ClearChatHistory

\* the session under any sequence of process_files, ask_question and
\* clear_chat_history calls
Spec == Init /\ [][Next]_vars

(***************************************************************************)
(* process_files applied once to each batch of up to MaxBatch files.       *)
(***************************************************************************)
IngestFiles ==
    {File(P_a_txt, "ok"), File(P_a_txt, "missing"),
     File(P_r_pdf, "ok"), File(P_r_pdf, "corrupt"),
     File(P_m_csv, "ok"), File(P_m_csv, "corrupt"),
     File(P_s_xlsx, "corrupt"), File(P_c_zip, "ok"),
     File(P_a_txt, "long")}

IngestBatches == UNION {[1..n -> IngestFiles] : n \in 0..MaxBatch}

InitIngest == InitSession /\ arg \in IngestBatches

NextIngest ==
    \E env \in IngestEnvs : last.op = "init" /\ ProcessFiles(arg, env)

SpecIngest == InitIngest /\ [][NextIngest]_vars

(***************************************************************************)
(* process_file applied once to each file.                                 *)
(***************************************************************************)
ProcessFile ==
    /\ last.op = "init"
    /\ last' = [op |-> "process_file", file |-> arg, ret |-> process_file(arg)]
    /\ UNCHANGED <<backend, ui, hist, arg>>

InitExtract == InitSession /\ arg \in ExtractFiles

NextExtract == ProcessFile

SpecExtract == InitExtract /\ [][NextExtract]_vars

(***************************************************************************)
(* data_download.py and data_upload.py                                     *)
(***************************************************************************)
\* what Azure and the environment do during one transfer: AZURE_CONN_STRING
\* ("" unset, "malformed", "valid"), whether AZURE_CONTAINER_NAME is set,
\* whether listing and downloading succeed, and the blobs of the container
Listings ==
    {<<>>,
     <<[name |-> P_a_txt, disk |-> "ok"]>>}

AzureEnvs ==
    {az \in [conn_str : {"", "malformed", "valid"}, container_name : BOOLEAN,
             service_ok : BOOLEAN, blobs : Listings] :
        (az.conn_str = "valid" /\ az.container_name /\ az.service_ok) \/ az.blobs = <<>>}

\* os.path.join(temp_dir, blob.name) for a relative blob name
path_join(dir, name) == dir \o <<"/">> \o name

\* download_from_azure(): None when the settings are missing, (None, [])
\* when the client, the listing or a download raises, else (temp_dir, files)
download_from_azure(az) ==
    IF az.conn_str = "" \/ ~az.container_name
    THEN [kind |-> "None"]
    ELSE IF az.conn_str = "malformed" \/ ~az.service_ok
    THEN [kind |-> "tuple", temp_dir |-> None, files |-> <<>>]
    ELSE [kind |-> "tuple", temp_dir |-> TempDir,
          files |-> [i \in 1..Len(az.blobs) |->
                        File(path_join(TempDir, az.blobs[i].name), az.blobs[i].disk)]]

\* whether the download failed: settings missing, or an exception
download_failed(az) ==
    az.conn_str # "valid" \/ ~az.container_name \/ ~az.service_ok

RECURSIVE upload_loop_stop(_, _, _)
\* the loop giving up at the first upload that fails
upload_loop_stop(items, outcomes, i) ==
    IF i > Len(items) THEN [attempts |-> <<>>, warnings |-> <<>>]
    ELSE LET rest == IF items[i].exists /\ ~outcomes[i]
                     THEN [attempts |-> <<>>, warnings |-> <<>>]
                     ELSE upload_loop_stop(items, outcomes, i + 1)
         IN  IF ~items[i].exists
             THEN [attempts |-> rest.attempts,
                   warnings |-> <<items[i].local_file>> \o rest.warnings]
             ELSE [attempts |-> <<[name |-> basename(items[i].local_file),
                                   data |-> items[i].local_file,
                                   overwrite |-> TRUE,
                                   content_type |-> items[i].content_type,
                                   ok |-> outcomes[i]]>> \o rest.attempts,
                   warnings |-> rest.warnings]

RECURSIVE upload_loop(_, _, _)
\* the for loop of upload_to_azure over files_to_upload.items() from item i:
\* the upload_blob calls made and the files warned about
upload_loop(items, outcomes, i) ==
    IF i > Len(items) THEN [attempts |-> <<>>, warnings |-> <<>>]
    ELSE LET rest == upload_loop(items, outcomes, i + 1)
         IN  IF ~items[i].exists
             THEN [attempts |-> rest.attempts,
                   warnings |-> <<items[i].local_file>> \o rest.warnings]
             ELSE [attempts |-> <<[name |-> basename(items[i].local_file),
                                   data |-> items[i].local_file,
                                   overwrite |-> TRUE,
                                   content_type |-> items[i].content_type,
                                   ok |-> outcomes[i]]>> \o rest.attempts,
                   warnings |-> rest.warnings]

\* upload_to_azure(files_to_upload): items are the dict's entries in order,
\* outcomes[i] tells whether the upload of item i succeeds
upload_to_azure(items, az, outcomes) ==
    IF az.conn_str = "" \/ ~az.container_name
    THEN [raised |-> FALSE, ret |-> FALSE, container_step |-> "not reached",
          attempts |-> <<>>, warnings |-> <<>>]
    ELSE IF az.conn_str = "malformed"
    THEN [raised |-> TRUE, ret |-> None, container_step |-> "not reached",
          attempts |-> <<>>, warnings |-> <<>>]
    ELSE LET loop == upload_loop(items, outcomes, 1)
         IN  [raised |-> FALSE, ret |-> TRUE, container_step |-> az.create_container,
              attempts |-> loop.attempts, warnings |-> loop.warnings]

MaxUpload == 3

UploadPaths == {P_a_txt, P_docs_a_txt, P_m_csv}
ContentTypes == {"text/plain", "text/csv"}
UploadItems == [local_file : UploadPaths, exists : BOOLEAN, content_type : ContentTypes]

\* a dict's entries: no two with the same key
UploadInputs ==
    {items \in UNION {[1..n -> UploadItems] : n \in 0..MaxUpload} :
        \A i, j \in 1..Len(items) : i # j => items[i].local_file # items[j].local_file}

\* create_container(): creates the container, finds it existing, or fails otherwise
UploadEnvs ==
    [conn_str : {"", "malformed", "valid"}, container_name : BOOLEAN,
     create_container : {"created", "exists", "error"}]

AfterUploadToAzure(az, outcomes, r) ==
    /\ last.op = "init"
    /\ last' = [op |-> "upload_to_azure", az |-> az, outcomes |-> outcomes,
                raised |-> r.raised, ret |-> r.ret, container_step |-> r.container_step,
                attempts |-> r.attempts, warnings |-> r.warnings]
    /\ UNCHANGED <<backend, ui, hist, arg>>

UploadToAzure(az, outcomes) ==
    AfterUploadToAzure(az, outcomes, upload_to_azure(arg, az, outcomes))

InitUpload == InitSession /\ arg \in UploadInputs

NextUpload ==
    \E az \in UploadEnvs, outcomes \in [1..Len(arg) -> BOOLEAN] : UploadToAzure(az, outcomes)

SpecUpload == InitUpload /\ [][NextUpload]_vars

(***************************************************************************)
(* chat_ui.py: the front-end actions on st.session_state.                  *)
(***************************************************************************)
\* "Connect to Azure and Download Data" once download_from_azure returned d
\* and, for a non-empty download, process_files came out as r
AfterDownloadClick(az, d, r) ==
    IF d.kind = "None"
    THEN \* temp_dir, downloaded_files = None raises TypeError
         /\ last' = [op |-> "download_click", az |-> az, raised |-> TRUE,
                     shown |-> "TypeError"]
         /\ UNCHANGED <<backend, ui, hist, arg>>
    ELSE IF d.files = <<>>
    THEN /\ last' = [op |-> "download_click", az |-> az, raised |-> FALSE,
                     shown |-> "Failed to download files from Azure"]
         /\ UNCHANGED <<backend, ui, hist, arg>>
    ELSE /\ connected_to_azure' = TRUE
         /\ downloaded_files' = [paths |-> d.files]
         /\ vectorstore' = r.vectorstore
         /\ conversation' = r.conversation
         /\ data_processed' = r.ret[1]
         /\ last' = [op |-> "download_click", az |-> az, raised |-> FALSE,
                     shown |-> r.ret[2].text]
         /\ HistAfterProcess(r)
         /\ UNCHANGED <<chat_history, st_chat_history, arg>>

DownloadClick(az, env) ==
    AfterDownloadClick(az, download_from_azure(az),
                       process_files(download_from_azure(az).files, env))

\* the ingest environments that make a difference after a download: all of
\* them when files arrived, one when process_files is not called
EnvsAfter(az) ==
    IF download_failed(az) \/ az.blobs = <<>>
    THEN {[faiss_ok |-> TRUE, azure_api_key |-> TRUE, azure_endpoint |-> TRUE,
           chain_ok |-> TRUE]}
    ELSE IngestEnvs

\* "Ask" with a non-empty question: handle_user_input
AfterAskClick(question, outcome, r) ==
    IF ~data_processed
    THEN /\ last' = [op |-> "ask_click", question |-> question, forwarded |-> FALSE,
                     ret |-> None,
                     shown |-> <<"Please connect to Azure and process data first">>]
         /\ UNCHANGED <<backend, ui, hist, arg>>
    ELSE /\ IsAnswer(r.ret) => asked < MaxAsks
         /\ conversation' = r.conversation
         /\ chat_history' = r.chat_history
         /\ last' = [op |-> "ask_click", question |-> question, forwarded |-> TRUE,
                     ret |-> r.ret,
                     shown |-> IF IsAnswer(r.ret) THEN r.ret.chat_history.messages
                               ELSE r.ret.error]
         /\ HistAfterAsk(r)
         /\ UNCHANGED <<vectorstore, ui, arg>>

AskClick(question, outcome) ==
    AfterAskClick(question, outcome, ask_question(question, outcome))

\* "Clear Chat"
AfterClearClick(r) ==
    /\ conversation' = r.conversation
    /\ chat_history' = r.chat_history
    /\ st_chat_history' = IF r.ret THEN None ELSE st_chat_history
    /\ last' = [op |-> "clear_click",
                shown |-> IF r.ret THEN "Chat history cleared!" ELSE "No chat history to clear"]
    /\ HistAfterClear(r)
    /\ UNCHANGED <<vectorstore, data_processed, connected_to_azure, downloaded_files, arg>>

ClearClick == AfterClearClick(clear_chat_history)

\* what Azure and the environment do during one "Upload to Azure" run: the
\* settings, create_container's outcome and, for the nested download, whether
\* listing and downloading succeed and the blobs of the container
UploadClickEnvs ==
    {az \in [conn_str : {"", "malformed", "valid"}, container_name : BOOLEAN,
             create_container : {"created", "error"},
             service_ok : BOOLEAN, blobs : Listings] :
        (az.conn_str = "valid" /\ az.container_name /\ az.service_ok) \/ az.blobs = <<>>}

\* files_to_upload of the run: the uploaded a.txt saved under the scratch
\* directory, with get_mimetype's content type
files_to_upload ==
    <<[local_file |-> path_join(TempDir, P_a_txt), exists |-> TRUE,
       content_type |-> "text/plain"]>>

\* "Upload to Azure" with files chosen, once upload_to_azure came out as u;
\* nested tells whether "Process Uploaded Files" reads as pressed in the
\* same run, and then download_from_azure returned d and, for a non-empty
\* download, process_files came out as r
AfterUploadClick(az, nested, u, d, r) ==
    IF u.raised
    THEN \* BlobServiceClient.from_connection_string raises ValueError
         /\ last' = [op |-> "upload_click", nested |-> FALSE, raised |-> TRUE,
                     shown |-> "ValueError"]
         /\ UNCHANGED <<backend, ui, hist, arg>>
    ELSE IF ~u.ret
    THEN /\ last' = [op |-> "upload_click", nested |-> FALSE, raised |-> FALSE,
                     shown |-> "Failed to upload files to Azure. Check connection settings."]
         /\ UNCHANGED <<backend, ui, hist, arg>>
    ELSE IF ~nested
    THEN /\ last' = [op |-> "upload_click", nested |-> FALSE, raised |-> FALSE,
                     shown |-> "Successfully uploaded {} files to Azure"]
         /\ UNCHANGED <<backend, ui, hist, arg>>
    ELSE IF d.kind = "None"
    THEN /\ last' = [op |-> "upload_click", nested |-> TRUE, raised |-> TRUE,
                     shown |-> "TypeError"]
         /\ UNCHANGED <<backend, ui, hist, arg>>
    ELSE IF d.files = <<>>
    THEN /\ last' = [op |-> "upload_click", nested |-> TRUE, raised |-> FALSE,
                     shown |-> "Successfully uploaded {} files to Azure"]
         /\ UNCHANGED <<backend, ui, hist, arg>>
    ELSE /\ connected_to_azure' = TRUE
         /\ downloaded_files' = [paths |-> d.files]
         /\ vectorstore' = r.vectorstore
         /\ conversation' = r.conversation
         /\ data_processed' = r.ret[1]
         /\ last' = [op |-> "upload_click", nested |-> TRUE, raised |-> FALSE,
                     shown |-> r.ret[2].text]
         /\ HistAfterProcess(r)
         /\ UNCHANGED <<chat_history, st_chat_history, arg>>

UploadClick(az, nested, outcomes, env) ==
    AfterUploadClick(az, nested, upload_to_azure(files_to_upload, az, outcomes),
                     download_from_azure(az),
                     process_files(download_from_azure(az).files, env))

\* the ingest environments that make a difference in an upload run
EnvsAfterUpload(az, nested) ==
    IF nested THEN EnvsAfter(az)
    ELSE {[faiss_ok |-> TRUE, azure_api_key |-> TRUE, azure_endpoint |-> TRUE,
           chain_ok |-> TRUE]}

NextUI ==
    \/ \E az \in AzureEnvs : \E env \in EnvsAfter(az) : DownloadClick(az, env)
    \/ \E question \in Questions, outcome \in InvokeOutcomes : AskClick(question, outcome)
    \/ ClearClick
    \/ \E az \in UploadClickEnvs, nested \in BOOLEAN,
          outcomes \in [1..Len(files_to_upload) -> BOOLEAN] :
            \E env \in EnvsAfterUpload(az, nested) : UploadClick(az, nested, outcomes, env)

\* the session under any sequence of front-end actions
SpecUI == Init /\ [][NextUI]_vars

(***************************************************************************)
(* Properties.                                                             *)
(***************************************************************************)
Answered == last.op = "ask_question" /\ IsAnswer(last.ret)

\* the transcript an answered ask_question returned
Transcript == last.ret.chat_history.messages

Alternates(messages) ==
    \A i \in 1..Len(messages) :
        messages[i].type = IF i % 2 = 1 THEN "human" ELSE "ai"

\* C1: in every reachable state of the session the vector index and the chat
\* object are both present or both absent
C1_IndexIffChat == (vectorstore = None) <=> (conversation = None)

\* C2 as stated: the transcript returned by the K-th answered ask_question of
\* the whole session has exactly 2K entries, alternating from a user turn
C2_WholeSession ==
    Answered => (Len(Transcript) = 2 * asked /\ Alternates(Transcript))

\* C2: the transcript returned by an answered ask_question has exactly 2K
\* entries, alternating user/assistant from a user turn, where K counts the
\* answered asks since the chain's memory was last created by process_files
\* or emptied by clear_chat_history
C2_SinceReset ==
    Answered => (Len(Transcript) = 2 * sinceReset /\ Alternates(Transcript))

C2_Witness ==
    Answered /\ asked = 2 /\ sinceReset = 2 /\ Len(Transcript) = 4

ConstructionFailures ==
    {"Failed to create vector store", "Failed to set up conversation chain"}

\* C3: when process_files reports that the vector store or the chain could
\* not be created, the session afterwards holds no chat object
C3_FailedIngestNoChat ==
    (last.op = "process_files" /\ last.ret[2].text \in ConstructionFailures)
        => conversation = None

\* C4: while no process_files call has succeeded, ask_question returns the
\* uninitialized-chain error and changes neither index, chain nor transcript
C4_AskBeforeIngest ==
    [][(~succeeded /\ last'.op = "ask_question")
         => (last'.ret = UninitializedError /\ UNCHANGED backend)]_vars

C4_Witness ==
    ~succeeded /\ vectorstore # None /\ last.op = "ask_question"
    /\ last.ret = UninitializedError

\* C5: when the chain invocation raises, ask_question returns the structured
\* error carrying the failure description, and index, chain and transcript are
\* what they were before the call
C5_InvokeFailure ==
    [][(last'.op = "ask_question" /\ conversation # None /\ last'.outcome.exc)
         => (last'.ret = GenericError(last'.outcome.val) /\ UNCHANGED backend)]_vars

C5_Witness ==
    /\ last.op = "ask_question" /\ last.outcome.exc
    /\ last.ret = GenericError(last.outcome.val)
    /\ chat_history # None /\ Len(conversation.memory) = 2

\* C6: clear_chat_history fails exactly when there is no chat object and then
\* changes nothing; otherwise it succeeds, empties the chain's memory and the
\* transcript, keeps the index and the chain; the next answered ask_question
\* returns a transcript of one user/assistant pair
C6_Clear ==
    /\ [][last'.op = "clear_chat_history"
            => IF conversation = None
               THEN last'.ret = FALSE /\ UNCHANGED backend
               ELSE /\ last'.ret = TRUE
                    /\ conversation' = [conversation EXCEPT !.memory = <<>>]
                    /\ chat_history' = None
                    /\ vectorstore' = vectorstore]_vars
    /\ []((Answered /\ last.after_clear)
            => (Len(Transcript) = 2 /\ Alternates(Transcript)))

C6_Witness ==
    Answered /\ last.after_clear /\ asked = 2 /\ Len(Transcript) = 2

\* C7: every failure of download_from_azure is handled by the download
\* action, which raises nothing and leaves the session state unchanged
C7_DownloadFailureHandled ==
    [][(last'.op = "download_click" /\ download_failed(last'.az))
         => (~last'.raised /\ UNCHANGED <<backend, ui>>)]_vars

\* the positions where the delimiter starts in text
DelimiterStarts(text) ==
    {i \in 1..(Len(text) - Len(Delimiter) + 1) :
        SubSeq(text, i, i + Len(Delimiter) - 1) = Delimiter}

\* the k-th block of text cut at the ascending delimiter positions starts
Block(text, starts, k) ==
    SubSeq(text, IF k = 1 THEN 1 ELSE starts[k - 1] + Len(Delimiter), starts[k] - 1)

FailingDocument(f) ==
    f.disk # "ok" /\ lower(splitext(f.path)[2]) \in {EXT_PDF, EXT_CSV, EXT_XLSX, EXT_XLS}

\* C8: process_files never raises over a batch with bad files; the corpus has
\* exactly one block per input path, in input order, each followed by the
\* 50-dash delimiter, and the block of a failing PDF or spreadsheet holds an
\* error string with the file's base name
C8_BatchSurvives ==
    last.op = "process_files" =>
        /\ ~last.raised
        /\ LET text == last.all_text
               paths == last.file_paths
               starts == sorted(DelimiterStarts(text))
           IN  /\ Len(starts) = Len(paths)
               /\ Delimiter = S_NL2 \o [i \in 1..50 |-> "-"] \o S_NL2
               /\ IF paths = <<>> THEN text = <<>>
                  ELSE starts[Len(starts)] + Len(Delimiter) - 1 = Len(text)
               /\ \A k \in 1..Len(paths) :
                    LET block == Block(text, starts, k)
                        base == basename(paths[k].path)
                    IN  /\ block = process_file(paths[k]).text
                        /\ FailingDocument(paths[k]) =>
                             \/ contains(block, S_ErrPdf \o base)
                             \/ contains(block, S_ErrProcessing \o base)

C8_Witness ==
    /\ last.op = "process_files" /\ ~last.raised
    /\ last.file_paths = <<File(P_m_csv, "corrupt"), File(P_a_txt, "ok")>>
    /\ contains(last.all_text, PlainText \o Delimiter)

SupportedExtensions ==
    {EXT_PDF, EXT_CSV, EXT_XLSX, EXT_XLS, EXT_TXT, EXT_MD, EXT_JSON, EXT_XML, EXT_HTML}

\* C9: for a path whose lowercased extension is not a supported one
\* process_file returns the unsupported-type marker naming the extension and
\* the base name, reads no file and raises nothing; for a supported extension
\* in any letter case it never returns the marker
C9_Dispatch ==
    last.op = "process_file" =>
        LET ext == lower(splitext(last.file.path)[2])
        IN  /\ ~last.ret.exc
            /\ IF ext \in SupportedExtensions
               THEN ~startswith(last.ret.text, S_Unsupported)
               ELSE /\ last.ret.text =
                         S_Unsupported \o ext \o S_ForFile \o basename(last.file.path)
                    /\ ~last.ret.read

C9_Witness ==
    /\ last.op = "process_file"
    /\ last.file = File(P_noext, "missing")
    /\ startswith(last.ret.text, S_Unsupported)

\* C10: with the configuration present upload_to_azure uploads every existing
\* local file exactly once under its base name, in order, skips the missing
\* ones with a warning, goes on after a failed upload, and returns True
\* whatever the uploads and the container step did
C10_Upload ==
    (last.op = "upload_to_azure" /\ last.az.conn_str = "valid" /\ last.az.container_name)
        => LET existing == SelectSeq(arg, LAMBDA item : item.exists)
               missing == SelectSeq(arg, LAMBDA item : ~item.exists)
           IN  /\ ~last.raised
               /\ last.ret = TRUE
               /\ Len(last.attempts) = Len(existing)
               /\ \A k \in 1..Len(existing) :
                    /\ last.attempts[k].name = basename(existing[k].local_file)
                    /\ last.attempts[k].data = existing[k].local_file
                    /\ last.attempts[k].content_type = existing[k].content_type
               /\ last.warnings = [k \in 1..Len(missing) |-> missing[k].local_file]

C10_Witness ==
    /\ last.op = "upload_to_azure" /\ ~last.raised /\ last.ret = TRUE
    /\ last.az.create_container = "exists"
    /\ Len(arg) = 3 /\ ~arg[2].exists
    /\ Len(last.attempts) = 2 /\ ~last.attempts[1].ok /\ last.attempts[2].ok

\* C11 as stated: ingesting the single file a.txt holding "hello world"
\* gives exactly one chunk, equal to "File: a.txt\n\nhello world"
C11_ChunkIsBlock ==
    (last.op = "process_files" /\ last.file_paths = <<File(P_a_txt, "ok")>>)
        => last.text_chunks = <<S_File \o P_a_txt \o S_NL2 \o PlainText>>

\* C11: ingesting the single file a.txt holding "hello world" gives exactly
\* one chunk: the lines "File: a.txt", "hello world" and the rule of 50
\* dashes joined by single newlines (the splitter drops the empty lines and
\* the chunk carries the delimiter's rule)
C11_ChunkIsLines ==
    (last.op = "process_files" /\ last.file_paths = <<File(P_a_txt, "ok")>>)
        => last.text_chunks =
             <<S_File \o P_a_txt \o S_NL \o PlainText \o S_NL \o [i \in 1..50 |-> "-"]>>

C11_Witness ==
    /\ last.op = "process_files" /\ last.file_paths = <<File(P_a_txt, "ok")>>
    /\ last.ret[1] /\ Len(last.text_chunks) = 1
    /\ last.reads = <<P_a_txt>>

\* C12: every chunk process_files hands to the index has at most 1000
\* characters, also when the corpus holds a line longer than that
C12_ChunksWithinSize ==
    last.op = "process_files"
        => \A k \in 1..Len(last.text_chunks) : Len(last.text_chunks[k]) <= ChunkSize

\* C13: in every state the front-end actions reach, data_processed is true
\* only while the backend holds a chat object, and a question that
\* handle_user_input forwards is never answered with the uninitialized-chain
\* error
C13_ProcessedHasChat ==
    /\ data_processed => conversation # None
    /\ (last.op = "ask_click" /\ last.forwarded) => last.ret # UninitializedError

C13_Witness ==
    /\ data_processed /\ conversation # None
    /\ connected_to_azure /\ downloaded_files # Unset
    /\ last.op = "ask_click" /\ last.forwarded /\ IsAnswer(last.ret)
====
